---- MODULE Spec2Model ----
(***************************************************************************)
(* A model of the experiment scheduler (experiments/experiment_3/run.py),   *)
(* of the stopwatch it uses (academia/utils/stopwatch.py), of the deep    *)
(* Q-learning agent (academia/agents/dqn_agent.py) and of the curriculum   *)
(* (academia/curriculum/curriculum.py).                                    *)
(*                                                                         *)
(* Python's None is modelled as the empty sequence and a present value x   *)
(* as the one-element sequence <<x>>, so that optional values of any type  *)
(* compare with each other.  A float is modelled as an exact fraction      *)
(* <<numerator, denominator>> in lowest terms; np.inf is <<1, 0>>.         *)
(***************************************************************************)
EXTENDS Integers, Sequences, FiniteSets, TLC

\* ------------------------------------------------------------------ bounds
\* the largest reading of either clock
MaxClock == 1
\* the largest reading of either clock when the stopwatch is exercised alone
MaxSwClock == 2
\* the capacity of the replay memory; the source's 100000 scaled down
REPLAY_MEMORY_SIZE == 4
\* the largest batch_size an agent is constructed with
MaxBatch == 4
\* the largest number of update calls one agent object receives
MaxUpdates == 6
\* the number of actions n_actions of the agents constructed
NActions == 3
\* the largest number of tasks in a curriculum
MaxTasks == 2
\* the largest number of soft updates made in a row
MaxSoftCalls == 3
\* the largest number of laps a sub-stopwatch records
MaxLaps == 2
\* the largest per-arm budget n_runs written in a meta.json the user supplies
MaxNRuns == 2
\* the largest invocation run limit (--runs) tried
MaxLimit == 5
\* the cap of a family's cumulative curriculum step count
MaxStepsSum == 1
\* the largest number of invocations of the script in one campaign
MaxInvocations == 2

\* ------------------------------------------------------------- the state
VARIABLES
    wall_now,   \* the reading of time.perf_counter
    cpu_now,    \* the reading of time.process_time
    sw,         \* the Stopwatch: its wall and cpu _GenericStopwatch
    sw_op,      \* the last stopwatch operation called, with its lap argument
    sw_ret,     \* what that call did: the value it returned or that it raised
    sw_prev,    \* the Stopwatch as it was before that call
    sw_since,   \* the readings of both clocks when start was last called
    pc,         \* where run_experiment is: "loop", "running", "done", "aborted"
    args,       \* the arguments of run_experiment
    meta,       \* the meta dict in memory
    disk,       \* meta.json: None (no file) or the dict last written
    runs,       \* the local runs of run_experiment
    cur,        \* the run selected in this iteration and what was built for it
    configs,    \* the configuration files written under ./configs
    log,        \* the last message run_experiment logged
    started,    \* the runs this invocation has started, in order
    outcome,    \* how the last run of this invocation ended
    meta_before, \* the meta dict as it was when the last run started
    invocation, \* how many times the script has been invoked
    meta_start, \* the meta dict load_meta returned to this invocation
    seeds,      \* every tuple determine_next_run has returned to a started run
    caps,       \* the step cap given to each no-curriculum run started, by family
    saved_run,  \* the run whose interrupt last wrote meta.json in this invocation
    agent,      \* the DQNAgent object, None before it is constructed
    agent_call, \* the last call on the agent: its name, arguments and result
    inserted,   \* every record update has put into the replay memory, in order
    archive,    \* the files DQNAgent.save wrote, None before the first save
    loaded,     \* whether the DQNAgent object was returned by DQNAgent.load
    fs,         \* the curriculum and task files on disk, by path
    curric,     \* the Curriculum object in memory, None before one is loaded
    curric_call, \* the last call on a Curriculum: its name, path and result
    crun        \* the call of Curriculum.run in progress or ended, None before

vars == <<wall_now, cpu_now, sw, sw_op, sw_ret, sw_prev, sw_since, pc, args,
          meta, disk, runs, cur, configs, log, started, outcome, meta_before,
          invocation, meta_start, seeds, caps, saved_run,
          agent, agent_call, inserted,
          archive, loaded,
          fs, curric, curric_call, crun>>

sw_vars == <<wall_now, cpu_now, sw, sw_op, sw_ret, sw_prev, sw_since>>

agent_vars == <<agent, agent_call, inserted, archive, loaded>>

curric_vars == <<fs, curric, curric_call, crun>>

other_vars == <<agent_vars, curric_vars>>

sched_vars == <<pc, args, meta, disk, runs, cur, configs, log, started,
                outcome, meta_before, invocation, meta_start, seeds, caps,
                saved_run>>

None == <<>>

Some(x) == <<x>>

\* no agent has been constructed
AgentIdle ==
    /\ agent = None
    /\ agent_call = None
    /\ inserted = <<>>
    /\ archive = None
    /\ loaded = FALSE

\* no curriculum has been written or loaded
CurricIdle ==
    /\ fs = None
    /\ curric = None
    /\ curric_call = None
    /\ crun = None

\* ------------------------------------------------------------ stopwatch.py
RECURSIVE np_sum(_)
np_sum(s) == IF s = <<>> THEN 0 ELSE Head(s) + np_sum(Tail(s))

\* _GenericStopwatch.__init__ before the optional start()
GenericInit == [lap_times |-> <<>>, lap_start |-> None]

is_running(g) == g.lap_start # None

\* A call's result: the object after the call, whether it raised RuntimeError,
\* and the value returned (None when it raised or returns nothing).
Raised(g) == [g |-> g, raised |-> TRUE, value |-> None]

Returned(g, v) == [g |-> g, raised |-> FALSE, value |-> v]

G_peek_lap_time(g, now) ==
    IF ~is_running(g) THEN Raised(g)
    ELSE Returned(g, Some(now - g.lap_start[1]))

G_peek_time(g, now) ==
    IF ~is_running(g) THEN Raised(g)
    ELSE Returned(g, Some(G_peek_lap_time(g, now).value[1] + np_sum(g.lap_times)))

G_lap(g, now) ==
    IF ~is_running(g) THEN Raised(g)
    ELSE LET lap_time == now - g.lap_start[1]
         IN Returned([lap_times |-> Append(g.lap_times, lap_time),
                      lap_start |-> Some(now)], Some(lap_time))

\* a stop that answers with the recorded total when the stopwatch is stopped
G_stop_silent(g, now, lap) ==
    IF ~is_running(g) THEN Returned(g, Some(np_sum(g.lap_times)))
    ELSE IF lap
         THEN Returned([lap_times |-> Append(g.lap_times, now - g.lap_start[1]),
                        lap_start |-> None],
                       Some(np_sum(g.lap_times) + (now - g.lap_start[1])))
         ELSE Returned([g EXCEPT !.lap_start = None],
                       Some(np_sum(g.lap_times) + (now - g.lap_start[1])))

\* a stop whose total leaves out the lap that is still open
G_stop_no_partial(g, now, lap) ==
    IF ~is_running(g) THEN Raised(g)
    ELSE IF lap
         THEN LET g1 == G_lap(g, now).g
              IN Returned([g1 EXCEPT !.lap_start = None], Some(np_sum(g1.lap_times)))
         ELSE Returned([g EXCEPT !.lap_start = None], Some(np_sum(g.lap_times)))

G_stop(g, now, lap) ==
    IF ~is_running(g) THEN Raised(g)
    ELSE IF lap
         THEN LET g1 == G_lap(g, now).g
              IN Returned([g1 EXCEPT !.lap_start = None], Some(np_sum(g1.lap_times)))
         ELSE Returned([g EXCEPT !.lap_start = None],
                       Some(np_sum(g.lap_times) + (now - g.lap_start[1])))

\* a start that keeps the laps recorded so far
G_start_keeps_laps(g, now) ==
    LET g1 == IF is_running(g) THEN G_stop(g, now, FALSE).g ELSE g
    IN Returned([g1 EXCEPT !.lap_start = Some(now)], None)

G_start(g, now) ==
    LET g1 == IF is_running(g) THEN G_stop(g, now, FALSE).g ELSE g
    IN Returned([g1 EXCEPT !.lap_times = <<>>, !.lap_start = Some(now)], None)

\* Stopwatch.__init__(start)
StopwatchInit(start, wnow, cnow) ==
    [wall |-> IF start THEN G_start(GenericInit, wnow).g ELSE GenericInit,
     cpu  |-> IF start THEN G_start(GenericInit, cnow).g ELSE GenericInit]

\* A Stopwatch method calls the wall sub-stopwatch, then the cpu one; an
\* exception of the first call leaves the second uncalled.
Both(s, w, c) ==
    IF w.raised THEN [s |-> [s EXCEPT !.wall = w.g], raised |-> TRUE, value |-> None]
    ELSE IF c.raised
         THEN [s |-> [wall |-> w.g, cpu |-> c.g], raised |-> TRUE, value |-> None]
         ELSE [s |-> [wall |-> w.g, cpu |-> c.g], raised |-> FALSE,
               value |-> IF w.value = None THEN None
                         ELSE Some(<<w.value[1], c.value[1]>>)]

S_start(s, wnow, cnow) == Both(s, G_start(s.wall, wnow), G_start(s.cpu, cnow))

S_peek_time(s, wnow, cnow) ==
    Both(s, G_peek_time(s.wall, wnow), G_peek_time(s.cpu, cnow))

\* a lap that closes the lap of the wall sub-stopwatch only
S_lap_wall_only(s, wnow, cnow) ==
    Both(s, G_lap(s.wall, wnow), Returned(s.cpu, Some(0)))

S_lap(s, wnow, cnow) == Both(s, G_lap(s.wall, wnow), G_lap(s.cpu, cnow))

S_peek_lap_time(s, wnow, cnow) ==
    Both(s, G_peek_lap_time(s.wall, wnow), G_peek_lap_time(s.cpu, cnow))

S_stop(s, wnow, cnow, lap) ==
    Both(s, G_stop(s.wall, wnow, lap), G_stop(s.cpu, cnow, lap))

\* ------------------------------------------------- experiment_3/run.py
\* the n_runs of the meta dict load_meta builds when there is no meta.json
DefaultNRuns == 10

\* the factor of the no-curriculum step cap
CapFactor == 3

Families == {"ppo", "dqn"}

FamilyEntry(c, s, n) == [curr_runs |-> c, curr_steps_sum |-> s, nocurr_runs |-> n]

DefaultMeta ==
    [n_runs |-> DefaultNRuns, ppo |-> FamilyEntry(0, 0, 0), dqn |-> FamilyEntry(0, 0, 0)]

load_meta(file) == IF file = None THEN DefaultMeta ELSE file[1]

save_meta(m) == Some(m)

\* the tuple determine_next_run returns
RunTuple(agent_type, runnable_type, i, random_state) ==
    <<Some(agent_type), Some(runnable_type), Some(i), Some(random_state)>>

NoRun == <<None, None, None, None>>

can_use(family, force_agent_type) ==
    force_agent_type = None \/ force_agent_type = Some(family)

\* a curriculum branch that is still open when the counter is at the budget
curr_cond_at_budget(m, family, force_agent_type, allow_curr) ==
    /\ can_use(family, force_agent_type)
    /\ allow_curr
    /\ m[family].curr_runs <= m.n_runs

\* the condition of a curriculum branch of determine_next_run
curr_cond(m, family, force_agent_type, allow_curr) ==
    /\ can_use(family, force_agent_type)
    /\ allow_curr
    /\ m[family].curr_runs < m.n_runs

\* a no-curriculum branch that does not wait for the curriculum arm
nocurr_cond_no_wait(m, family, force_agent_type, allow_nocurr) ==
    /\ can_use(family, force_agent_type)
    /\ allow_nocurr
    /\ m[family].nocurr_runs < m.n_runs

\* the condition of a no-curriculum branch of determine_next_run
nocurr_cond(m, family, force_agent_type, allow_nocurr) ==
    /\ can_use(family, force_agent_type)
    /\ allow_nocurr
    /\ m[family].curr_runs = m.n_runs
    /\ m[family].nocurr_runs < m.n_runs

ppo_curr(m) == RunTuple("ppo", "curr", m.ppo.curr_runs, m.ppo.curr_runs + 0 * m.n_runs)

\* a no-curriculum tuple built from the curriculum counter
ppo_nocurr_curr_index(m) ==
    RunTuple("ppo", "nocurr", m.ppo.curr_runs, m.ppo.curr_runs + 1 * m.n_runs)

ppo_nocurr(m) ==
    RunTuple("ppo", "nocurr", m.ppo.nocurr_runs, m.ppo.nocurr_runs + 1 * m.n_runs)

\* a dqn curriculum seed with the stride of the ppo no-curriculum arm
dqn_curr_stride_1(m) ==
    RunTuple("dqn", "curr", m.dqn.curr_runs, m.dqn.curr_runs + 1 * m.n_runs)

dqn_curr(m) == RunTuple("dqn", "curr", m.dqn.curr_runs, m.dqn.curr_runs + 2 * m.n_runs)

dqn_nocurr(m) ==
    RunTuple("dqn", "nocurr", m.dqn.nocurr_runs, m.dqn.nocurr_runs + 3 * m.n_runs)

determine_next_run(m, force_agent_type, allow_curr, allow_nocurr) ==
    IF curr_cond(m, "ppo", force_agent_type, allow_curr) THEN ppo_curr(m)
    ELSE IF nocurr_cond(m, "ppo", force_agent_type, allow_nocurr) THEN ppo_nocurr(m)
    ELSE IF curr_cond(m, "dqn", force_agent_type, allow_curr) THEN dqn_curr(m)
    ELSE IF nocurr_cond(m, "dqn", force_agent_type, allow_nocurr) THEN dqn_nocurr(m)
    ELSE NoRun

\* get_agent falls off its end, returning None, for any other agent_type
get_agent(agent_type, random_state) ==
    IF agent_type = "dqn" THEN Some([class |-> "DQNAgent", random_state |-> random_state])
    ELSE IF agent_type = "ppo"
         THEN Some([class |-> "PPOAgent", random_state |-> random_state])
         ELSE None

RECURSIVE gcd(_, _)
gcd(a, b) == IF b = 0 THEN a ELSE gcd(b, a % b)

\* Python's a / b of two non-negative ints, b > 0, as a fraction in lowest terms
TrueDiv(a, b) == <<a \div gcd(a, b), b \div gcd(a, b)>>

np_inf == <<1, 0>>

\* a step cap computed with floor division
max_steps_floor_div(m, agent_type, runnable_type) ==
    IF runnable_type = "nocurr"
    THEN <<(CapFactor * m[agent_type].curr_steps_sum) \div m.n_runs, 1>>
    ELSE np_inf

\* the max_steps run_experiment computes for the selected run
max_steps_of(m, agent_type, runnable_type) ==
    IF runnable_type = "nocurr"
    THEN TrueDiv(CapFactor * m[agent_type].curr_steps_sum, m.n_runs)
    ELSE np_inf

\* get_runnable, for the two runnable types determine_next_run returns
get_runnable(runnable_type, agent_type, i, max_steps) ==
    IF runnable_type = "curr"
    THEN [class |-> "Curriculum", output |-> <<agent_type, "curriculum", i>>,
          max_steps |-> np_inf]
    ELSE [class |-> "LearningTask", output |-> <<agent_type, "nocurriculum", i>>,
          max_steps |-> max_steps]

\* the path f'./configs/{agent_type}_{runnable_type}_{i}'
config_path(agent_type, runnable_type, i) == <<agent_type, runnable_type, i>>

\* a configuration that is not written
save_config_skipped(files, path) == files

\* runnable.save(path) of line 215
save_config(files, path) == files \cup {path}

\* lines 224-230: the counters after a run that reported `steps` steps
account(m, agent_type, runnable_type, steps) ==
    LET counted == IF runnable_type = "curr"
                   THEN [m EXCEPT ![agent_type].curr_runs = @ + 1]
                   ELSE [m EXCEPT ![agent_type].nocurr_runs = @ + 1]
    IN IF runnable_type = "curr"
       THEN [counted EXCEPT ![agent_type].curr_steps_sum = @ + steps]
       ELSE counted

\* --------------------------------------------------- run_experiment
\* the values of --agent tried: none, the two families, an unrecognized one
ForceValues == {None, Some("ppo"), Some("dqn"), Some("sac")}

ArgSets ==
    [n_runs : {0, 1, MaxLimit}, wall_time : {0, MaxClock},
     force_agent_type : ForceValues, allow_curr : BOOLEAN, allow_nocurr : BOOLEAN]

\* meta.json before the first invocation: absent, or written by the user with
\* a per-arm budget of their own and no run counted yet
InitialFiles ==
    {None} \cup {Some([DefaultMeta EXCEPT !.n_runs = n]) : n \in 0..MaxNRuns}

\* lines 201-202
next_run == determine_next_run(meta, args.force_agent_type, args.allow_curr,
                               args.allow_nocurr)

\* the limit compared with runs before it is incremented
runs_limit_off_by_one == runs > args.n_runs

\* line 194, after runs += 1
runs_limit_reached == runs + 1 > args.n_runs

\* line 197
time_limit_reached == S_peek_time(sw, wall_now, cpu_now).value[1][1] >= args.wall_time

\* lines 189-191 of a fresh process
Setup(a) ==
    /\ args' = a
    /\ meta' = load_meta(disk)
    /\ runs' = 0
    /\ wall_now' = 0
    /\ cpu_now' = 0
    /\ sw' = StopwatchInit(TRUE, 0, 0)
    /\ sw_since' = <<0, 0>>
    /\ pc' = "loop"
    /\ cur' = None
    /\ log' = None
    /\ started' = <<>>
    /\ outcome' = "none"
    /\ meta_before' = load_meta(disk)
    /\ meta_start' = load_meta(disk)

Init ==
    /\ disk \in InitialFiles
    /\ args \in ArgSets
    /\ meta = load_meta(disk)
    /\ runs = 0
    /\ wall_now = 0
    /\ cpu_now = 0
    /\ sw = StopwatchInit(TRUE, 0, 0)
    /\ pc = "loop"
    /\ cur = None
    /\ configs = {}
    /\ log = None
    /\ started = <<>>
    /\ outcome = "none"
    /\ meta_before = load_meta(disk)
    /\ invocation = 1
    /\ meta_start = load_meta(disk)
    /\ seeds = {}
    /\ caps = {}
    /\ saved_run = None
    /\ sw_op = None
    /\ sw_ret = None
    /\ sw_prev = None
    /\ sw_since = <<0, 0>>
    /\ AgentIdle
    /\ CurricIdle

\* lines 193-196 and 232
ExitRunsLimit ==
    /\ pc = "loop"
    /\ runs_limit_reached
    /\ runs' = runs + 1
    /\ log' = Some("Reached runs limit. Stopping experiment.")
    /\ disk' = save_meta(meta)
    /\ pc' = "done"
    /\ UNCHANGED <<args, meta, cur, configs, started, outcome, meta_before,
                   invocation, meta_start, seeds, caps>>
    /\ saved_run' = None
    /\ UNCHANGED sw_vars
    /\ UNCHANGED other_vars

\* lines 193-199 and 232
ExitTimeLimit ==
    /\ pc = "loop"
    /\ ~runs_limit_reached
    /\ time_limit_reached
    /\ runs' = runs + 1
    /\ log' = Some("Reached time limit. Stopping experiment.")
    /\ disk' = save_meta(meta)
    /\ pc' = "done"
    /\ UNCHANGED <<args, meta, cur, configs, started, outcome, meta_before,
                   invocation, meta_start, seeds, caps>>
    /\ saved_run' = None
    /\ UNCHANGED sw_vars
    /\ UNCHANGED other_vars

\* lines 193-205 and 232
ExitExhausted ==
    /\ pc = "loop"
    /\ ~runs_limit_reached
    /\ ~time_limit_reached
    /\ next_run[1] = None
    /\ runs' = runs + 1
    /\ log' = Some("No allowed configurations left. Stopping experiment.")
    /\ disk' = save_meta(meta)
    /\ pc' = "done"
    /\ UNCHANGED <<args, meta, cur, configs, started, outcome, meta_before,
                   invocation, meta_start, seeds, caps>>
    /\ saved_run' = None
    /\ UNCHANGED sw_vars
    /\ UNCHANGED other_vars

\* lines 193-218: the iteration up to the call of runnable.run
StartRun ==
    /\ pc = "loop"
    /\ ~runs_limit_reached
    /\ ~time_limit_reached
    /\ next_run[1] # None
    /\ LET agent_type == next_run[1][1]
           runnable_type == next_run[2][1]
           i == next_run[3][1]
           random_state == next_run[4][1]
           max_steps == max_steps_of(meta, agent_type, runnable_type)
       IN /\ cur' = Some([agent_type |-> agent_type, runnable_type |-> runnable_type,
                          i |-> i, random_state |-> random_state,
                          agent |-> get_agent(agent_type, random_state),
                          max_steps |-> max_steps,
                          runnable |-> get_runnable(runnable_type, agent_type, i,
                                                    max_steps)])
          /\ configs' = save_config(configs, config_path(agent_type, runnable_type, i))
          /\ started' = Append(started, next_run)
          /\ seeds' = seeds \cup {next_run}
          /\ caps' = IF runnable_type = "nocurr"
                     THEN caps \cup {<<agent_type, max_steps>>}
                     ELSE caps
    /\ runs' = runs + 1
    /\ log' = Some("Starting")
    /\ outcome' = "none"
    /\ meta_before' = meta
    /\ pc' = "running"
    /\ UNCHANGED <<args, meta, disk, invocation, meta_start, saved_run>>
    /\ UNCHANGED sw_vars
    /\ UNCHANGED other_vars

\* The clocks advance while runnable.run executes.  The process is busy
\* training for the whole run, so its processor time advances with the wall
\* time; line 197 reads the wall time only.
RunTakes(dw) ==
    /\ wall_now + dw <= MaxClock
    /\ wall_now' = wall_now + dw
    /\ cpu_now' = cpu_now + dw
    /\ UNCHANGED <<sw, sw_op, sw_ret, sw_prev, sw_since>>
    /\ UNCHANGED other_vars

\* the steps a run may report: a task run's statistics are not read
StepsOf(run) ==
    IF run.runnable_type = "curr"
    THEN {k \in 0..1 : meta[run.agent_type].curr_steps_sum + k <= MaxStepsSum}
    ELSE {0}

\* lines 219-220 and 224-230: runnable.run returns
RunReturns ==
    /\ pc = "running"
    /\ \E steps \in StepsOf(cur[1]), dw \in 0..1 :
          /\ RunTakes(dw)
          /\ meta' = account(meta, cur[1].agent_type, cur[1].runnable_type, steps)
    /\ log' = Some("Finished")
    /\ outcome' = "returned"
    /\ pc' = "loop"
    /\ UNCHANGED <<args, disk, runs, cur, configs, started, meta_before, invocation,
                   meta_start, seeds, caps, saved_run>>

\* an interrupt handler that skips the rest of the iteration
RunInterrupted_not_counted ==
    /\ pc = "running"
    /\ \E dw \in 0..1 : RunTakes(dw)
    /\ disk' = save_meta(meta)
    /\ outcome' = "interrupted"
    /\ pc' = "loop"
    /\ UNCHANGED <<args, meta, runs, cur, configs, log, started, meta_before, invocation,
                   meta_start, seeds, caps>>
    /\ saved_run' = cur

\* an interrupt handler that leaves the loop after saving
RunInterrupted_ends_loop ==
    /\ pc = "running"
    /\ \E steps \in StepsOf(cur[1]), dw \in 0..1 :
          /\ RunTakes(dw)
          /\ meta' = account(meta, cur[1].agent_type, cur[1].runnable_type, steps)
    /\ disk' = save_meta(meta)
    /\ saved_run' = cur
    /\ outcome' = "interrupted"
    /\ pc' = "done"
    /\ UNCHANGED <<args, runs, cur, configs, log, started, meta_before, invocation,
                   meta_start, seeds, caps>>

\* lines 219, 221-222 and 224-230: runnable.run raises KeyboardInterrupt
RunInterrupted ==
    /\ pc = "running"
    /\ \E steps \in StepsOf(cur[1]), dw \in 0..1 :
          /\ RunTakes(dw)
          /\ meta' = account(meta, cur[1].agent_type, cur[1].runnable_type, steps)
    /\ disk' = save_meta(meta)
    /\ outcome' = "interrupted"
    /\ pc' = "loop"
    /\ UNCHANGED <<args, runs, cur, configs, log, started, meta_before, invocation,
                   meta_start, seeds, caps>>
    /\ saved_run' = cur

\* line 219: runnable.run raises any other exception, which nothing catches
RunFails ==
    /\ pc = "running"
    /\ outcome' = "failed"
    /\ pc' = "aborted"
    /\ UNCHANGED <<args, meta, disk, runs, cur, configs, log, started, meta_before,
                   invocation, meta_start, seeds, caps, saved_run>>
    /\ UNCHANGED sw_vars
    /\ UNCHANGED other_vars

\* the next invocation of the same command line, after the previous one ended
Restart ==
    /\ pc \in {"done", "aborted"}
    /\ invocation < MaxInvocations
    /\ invocation' = invocation + 1
    /\ Setup(args)
    /\ UNCHANGED <<disk, configs, seeds, caps, sw_op, sw_ret, sw_prev>>
    /\ saved_run' = None
    /\ UNCHANGED other_vars

Next ==
    \/ ExitRunsLimit
    \/ ExitTimeLimit
    \/ ExitExhausted
    \/ StartRun
    \/ RunReturns
    \/ RunInterrupted
    \/ RunFails
    \/ Restart

Spec == Init /\ [][Next]_vars

FairSpec ==
    /\ Spec
    /\ WF_vars(ExitRunsLimit \/ ExitTimeLimit \/ ExitExhausted \/ StartRun)
    /\ WF_vars(RunReturns)

\* ------------------------------------- determine_next_run on any meta dict
\* every meta dict with a per-arm budget up to MaxNRuns and counters within it
AllMetas ==
    {[n_runs |-> n, ppo |-> FamilyEntry(pc_, 0, pn), dqn |-> FamilyEntry(dc, 0, dn)] :
        n \in 0..MaxNRuns, pc_ \in 0..MaxNRuns, pn \in 0..MaxNRuns,
        dc \in 0..MaxNRuns, dn \in 0..MaxNRuns}

CountersWithinBudget(m) ==
    \A f \in Families : m[f].curr_runs <= m.n_runs /\ m[f].nocurr_runs <= m.n_runs

InitSelect ==
    /\ meta \in {m \in AllMetas : CountersWithinBudget(m)}
    /\ args \in ArgSets
    /\ pc = "select"
    /\ disk = None
    /\ runs = 0
    /\ wall_now = 0
    /\ cpu_now = 0
    /\ sw = StopwatchInit(TRUE, 0, 0)
    /\ cur = None
    /\ configs = {}
    /\ log = None
    /\ started = <<>>
    /\ outcome = "none"
    /\ meta_before = meta
    /\ invocation = 1
    /\ meta_start = meta
    /\ seeds = {}
    /\ caps = {}
    /\ saved_run = None
    /\ sw_op = None
    /\ sw_ret = None
    /\ sw_prev = None
    /\ sw_since = <<0, 0>>
    /\ AgentIdle
    /\ CurricIdle

\* lines 201-202 alone: the call of determine_next_run
Select ==
    /\ pc = "select"
    /\ started' = <<next_run>>
    /\ pc' = "selected"
    /\ UNCHANGED <<args, meta, disk, runs, cur, configs, log, outcome, meta_before,
                   invocation, meta_start, seeds, caps, saved_run>>
    /\ UNCHANGED sw_vars
    /\ UNCHANGED other_vars

NextSelect == Select

SpecSelect == InitSelect /\ [][NextSelect]_vars

\* ------------------------------------------- the stopwatch on its own
InitSW ==
    /\ wall_now = 0
    /\ cpu_now = 0
    /\ \E start \in BOOLEAN : sw = StopwatchInit(start, 0, 0)
    /\ sw_op = None
    /\ sw_ret = None
    /\ sw_prev = None
    /\ sw_since = <<0, 0>>
    /\ AgentIdle
    /\ CurricIdle
    /\ pc = "stopwatch"
    /\ args = None
    /\ meta = DefaultMeta
    /\ disk = None
    /\ runs = 0
    /\ cur = None
    /\ configs = {}
    /\ log = None
    /\ started = <<>>
    /\ outcome = "none"
    /\ meta_before = DefaultMeta
    /\ invocation = 1
    /\ meta_start = DefaultMeta
    /\ seeds = {}
    /\ caps = {}
    /\ saved_run = None

\* a call of a Stopwatch method: what it returned or raised, the readings of
\* the clocks it was made at, and its effect
Call(op, result) ==
    /\ sw_op' = Some(op)
    /\ sw_prev' = Some(sw)
    /\ sw_ret' = Some([raised |-> result.raised, value |-> result.value,
                       at |-> <<wall_now, cpu_now>>])
    /\ sw' = result.s
    /\ sw_since' = IF op = "start" THEN <<wall_now, cpu_now>> ELSE sw_since
    /\ UNCHANGED <<wall_now, cpu_now>>
    /\ UNCHANGED sched_vars
    /\ UNCHANGED other_vars

LapsLeft == Len(sw.wall.lap_times) < MaxLaps /\ Len(sw.cpu.lap_times) < MaxLaps

CallStart == Call("start", S_start(sw, wall_now, cpu_now))

CallPeekTime == Call("peek_time", S_peek_time(sw, wall_now, cpu_now))

CallPeekLapTime == Call("peek_lap_time", S_peek_lap_time(sw, wall_now, cpu_now))

CallLap ==
    /\ LapsLeft
    /\ Call("lap", S_lap(sw, wall_now, cpu_now))

CallStop ==
    \E lap \in BOOLEAN :
        /\ lap => LapsLeft
        /\ Call(IF lap THEN "stop(lap=True)" ELSE "stop", S_stop(sw, wall_now, cpu_now, lap))

\* time passes between two calls
Tick ==
    /\ \E dw \in 0..1, dc \in 0..1 :
          /\ dw + dc > 0
          /\ wall_now + dw <= MaxSwClock
          /\ cpu_now + dc <= MaxSwClock
          /\ wall_now' = wall_now + dw
          /\ cpu_now' = cpu_now + dc
    /\ UNCHANGED <<sw, sw_op, sw_ret, sw_prev, sw_since>>
    /\ UNCHANGED sched_vars
    /\ UNCHANGED other_vars

NextSW ==
    \/ CallStart
    \/ CallPeekTime
    \/ CallPeekLapTime
    \/ CallLap
    \/ CallStop
    \/ Tick

SpecSW == InitSW /\ [][NextSW]_vars

\* ================================================================ claims
RunsLimitMsg == Some("Reached runs limit. Stopping experiment.")

TimeLimitMsg == Some("Reached time limit. Stopping experiment.")

ExhaustedMsg == Some("No allowed configurations left. Stopping experiment.")

\* the four arms in their priority order
ArmOrder == << <<"ppo", "curr">>, <<"ppo", "nocurr">>, <<"dqn", "curr">>,
               <<"dqn", "nocurr">> >>

ArmCounter(m, arm) ==
    IF arm[2] = "curr" THEN m[arm[1]].curr_runs ELSE m[arm[1]].nocurr_runs

ArmQualifies(m, a, arm) ==
    /\ a.force_agent_type \in {None, Some(arm[1])}
    /\ IF arm[2] = "curr" THEN a.allow_curr ELSE a.allow_nocurr
    /\ ArmCounter(m, arm) < m.n_runs
    /\ arm[2] = "nocurr" => m[arm[1]].curr_runs = m.n_runs

QualifyingArms(m, a) == {k \in 1..4 : ArmQualifies(m, a, ArmOrder[k])}

\* C1: determine_next_run returns the first arm of the priority order whose
\* family the forced-family filter allows, whose kind is enabled and whose
\* counter is below n_runs (a no-curriculum arm only when its family's
\* curriculum counter equals n_runs), with that counter as the run index, and
\* the all-None tuple when no arm qualifies; for every meta dict with counters
\* in 0..n_runs and every filter and pair of flags.
C1_FirstQualifyingArm ==
    pc = "selected" =>
        LET q == QualifyingArms(meta, args)
            r == started[1]
        IN IF q = {} THEN r = NoRun
           ELSE LET k == CHOOSE k \in q : \A j \in q : k <= j
                IN /\ r[1] = Some(ArmOrder[k][1])
                   /\ r[2] = Some(ArmOrder[k][2])
                   /\ r[3] = Some(ArmCounter(meta, ArmOrder[k]))

\* the last arm is selected with no filter: every arm before it fails to qualify
C1_Witness ==
    /\ pc = "selected"
    /\ args.force_agent_type = None
    /\ started[1][1] = Some("dqn")
    /\ started[1][2] = Some("nocurr")
    /\ started[1][3] = Some(1)

\* the runs of `family` and `kind` among the first p - 1 started runs
StartedBefore(p, family, kind) ==
    Cardinality({q \in 1..(p - 1) :
                    started[q][1] = Some(family) /\ started[q][2] = Some(kind)})

FamilyComplete(m, family) ==
    m[family].curr_runs = m.n_runs /\ m[family].nocurr_runs = m.n_runs

ArmStride(family, kind) ==
    IF family = "ppo" THEN (IF kind = "curr" THEN 0 ELSE 1)
    ELSE (IF kind = "curr" THEN 2 ELSE 3)

\* C3: the seed of a started run is its index plus 0, 1, 2, 3 times n_runs for
\* ppo-curr, ppo-nocurr, dqn-curr, dqn-nocurr, and over the campaign two runs
\* with the same seed are the same arm and index.
C3_SeedsNeverCollide ==
    /\ \A x \in seeds :
          x[4][1] = x[3][1] + ArmStride(x[1][1], x[2][1]) * meta.n_runs
    /\ \A x, y \in seeds :
          x[4] = y[4] => (x[1] = y[1] /\ x[2] = y[2] /\ x[3] = y[3])

\* runs of two arms with the same index, and two runs of one arm, were seeded
C3_Witness ==
    /\ \E x, y \in seeds :
          /\ x[1] = Some("ppo") /\ x[2] = Some("nocurr")
          /\ y[1] = Some("dqn") /\ y[2] = Some("curr")
          /\ x[3] = y[3]
    /\ \E x, y \in seeds : x[1] = y[1] /\ x[2] = y[2] /\ x[3] # y[3]

\* C4 (as claimed): after a run that returns the meta.json on disk holds the
\* updated counters, and when an unhandled failure aborts the invocation
\* meta.json reflects every run completed before it.
C4_MetaFileAfterEveryRun ==
    /\ (outcome = "returned" /\ pc = "loop") => disk = Some(meta)
    /\ pc = "aborted" => load_meta(disk) = meta

\* C5: after a KeyboardInterrupt during a run, meta.json holds the meta dict as
\* it was before that run, and the run's counter in memory is one higher, the
\* other counter of the family being as before.
C5_InterruptSavesThenCounts ==
    (outcome = "interrupted" /\ pc = "loop") =>
        LET family == cur[1].agent_type
            kind == cur[1].runnable_type
        IN /\ disk = Some(meta_before)
           /\ ArmCounter(meta, <<family, kind>>)
                 = ArmCounter(meta_before, <<family, kind>>) + 1
           /\ \A arm \in {ArmOrder[k] : k \in 1..4} \ {<<family, kind>>} :
                 ArmCounter(meta, arm) = ArmCounter(meta_before, arm)

\* an interrupted curriculum run that reported steps
C5_Witness ==
    /\ outcome = "interrupted"
    /\ pc = "loop"
    /\ cur[1].runnable_type = "curr"
    /\ disk = Some(meta_before)
    /\ meta[cur[1].agent_type].curr_runs = meta_before[cur[1].agent_type].curr_runs + 1
    /\ meta[cur[1].agent_type].curr_steps_sum > meta_before[cur[1].agent_type].curr_steps_sum

\* C6: while a run executes, its configuration file, named by its family, kind
\* and index, has been written.
C6_ConfigSavedBeforeRun ==
    pc = "running" =>
        config_path(cur[1].agent_type, cur[1].runnable_type, cur[1].i) \in configs

\* a second no-curriculum run executes with both its files written
C6_Witness ==
    /\ pc = "running"
    /\ cur[1].runnable_type = "nocurr"
    /\ cur[1].i = 1
    /\ {config_path(cur[1].agent_type, "nocurr", 0),
        config_path(cur[1].agent_type, "nocurr", 1)} \subseteq configs

\* why the loop of run_experiment was left
C7_StopReason ==
    pc = "done" =>
        /\ log \in {RunsLimitMsg, TimeLimitMsg, ExhaustedMsg}
        /\ log = RunsLimitMsg <=> runs > args.n_runs
        /\ log = TimeLimitMsg <=> (runs <= args.n_runs /\ time_limit_reached)
        /\ log = ExhaustedMsg =>
              (runs <= args.n_runs /\ ~time_limit_reached /\ next_run = NoRun)

C7_RunsWithinLimit ==
    pc \in {"loop", "running", "done", "aborted"} => Len(started) <= args.n_runs

\* C7: when every run returns, the loop of run_experiment is left; it is left
\* by the first of the runs limit, the time limit (read between runs only) and
\* exhaustion; and an invocation starts at most its n_runs runs.
C7_LoopTerminates ==
    /\ [](C7_StopReason /\ C7_RunsWithinLimit)
    /\ (pc = "loop") ~> (pc \in {"done", "aborted"})

\* the time limit ends an invocation that has started a run, with budget and
\* arms left
C7_Witness ==
    /\ pc = "done"
    /\ log = TimeLimitMsg
    /\ Len(started) >= 1
    /\ runs <= args.n_runs
    /\ next_run # NoRun

\* C8: a no-curriculum run is given the step cap 3 * curr_steps_sum / n_runs of
\* its family (30 for 100 and 10) and a curriculum run is given np.inf.
C8_StepCap ==
    /\ max_steps_of([n_runs |-> 10, ppo |-> FamilyEntry(10, 100, 0),
                     dqn |-> FamilyEntry(0, 0, 0)], "ppo", "nocurr") = <<30, 1>>
    /\ pc = "running" =>
          LET r == cur[1]
          IN IF r.runnable_type = "nocurr"
             THEN /\ r.max_steps[2] > 0
                  /\ r.max_steps[1] * meta.n_runs
                        = 3 * meta[r.agent_type].curr_steps_sum * r.max_steps[2]
                  /\ r.runnable.max_steps = r.max_steps
             ELSE r.runnable.max_steps = np_inf

\* a no-curriculum run with the cap 3 * 1 / 2
C8_Witness ==
    /\ pc = "running"
    /\ cur[1].runnable_type = "nocurr"
    /\ meta.n_runs = 2
    /\ meta[cur[1].agent_type].curr_steps_sum = 1
    /\ cur[1].runnable.max_steps = <<3, 2>>

\* C9 (as claimed): get_agent returns None for an unrecognized family, and an
\* invocation forced to an unrecognized family, with arms left that qualify
\* but for the filter, does not end with the message of arm exhaustion.
C9_UnrecognizedFamilyDistinguished ==
    /\ get_agent("sac", 0) = None
    /\ (/\ pc = "done"
        /\ args.force_agent_type \notin {None, Some("ppo"), Some("dqn")}
        /\ QualifyingArms(meta, [args EXCEPT !.force_agent_type = None]) # {}) =>
          log # ExhaustedMsg

RaisingOps == {"peek_time", "peek_lap_time", "lap", "stop", "stop(lap=True)"}

SubClocks == {"wall", "cpu"}

\* C10: peek_time, peek_lap_time, lap and stop raise exactly when the
\* stopwatch is not running, and a call that raises leaves the running flag and
\* the lap history of both sub-stopwatches as they were.
C10_RaisesIffNotRunning ==
    (sw_op # None /\ sw_op[1] \in RaisingOps) =>
        /\ \A c \in SubClocks : sw_ret[1].raised <=> ~is_running(sw_prev[1][c])
        /\ sw_ret[1].raised =>
              \A c \in SubClocks :
                  /\ is_running(sw[c]) = is_running(sw_prev[1][c])
                  /\ sw[c].lap_times = sw_prev[1][c].lap_times

\* a lap on a stopped stopwatch with a recorded lap raised
C10_Witness ==
    /\ sw_op = Some("lap")
    /\ sw_ret[1].raised
    /\ Len(sw.wall.lap_times) > 0
    /\ ~is_running(sw.wall)

\* the position of a sub-stopwatch's value in the pair a Stopwatch call returns
ClockIndex(c) == IF c = "wall" THEN 1 ELSE 2

\* C11: a stop that does not raise returns, for each clock, the time elapsed
\* since the last start: with lap=False the sum of the recorded laps plus the
\* lap still open, the history left as it was; with lap=True the open lap is
\* first appended to the history and the sum of the history is returned.  A
\* lap call reports the duration it records.  The stopwatch is not running
\* after the stop.
C11_StopReturnsElapsed ==
    /\ (sw_op \in {Some("stop"), Some("stop(lap=True)")} /\ ~sw_ret[1].raised) =>
          \A c \in SubClocks :
              LET i == ClockIndex(c)
                  before == sw_prev[1][c]
                  now == sw_ret[1].at[i]
                  total == sw_ret[1].value[1][i]
                  open == now - before.lap_start[1]
              IN /\ ~is_running(sw[c])
                 /\ total = now - sw_since[i]
                 /\ IF sw_op = Some("stop")
                    THEN /\ total = np_sum(before.lap_times) + open
                         /\ sw[c].lap_times = before.lap_times
                    ELSE /\ sw[c].lap_times = Append(before.lap_times, open)
                         /\ total = np_sum(sw[c].lap_times)
    /\ (sw_op = Some("lap") /\ ~sw_ret[1].raised) =>
          \A c \in SubClocks :
              /\ sw[c].lap_times = Append(sw_prev[1][c].lap_times,
                                          sw_ret[1].value[1][ClockIndex(c)])
              /\ is_running(sw[c])

\* a stop without lap returned while a recorded lap and the open lap both had
\* a duration above zero
C11_Witness ==
    /\ sw_op = Some("stop")
    /\ ~sw_ret[1].raised
    /\ np_sum(sw_prev[1].wall.lap_times) > 0
    /\ sw_ret[1].at[1] - sw_prev[1].wall.lap_start[1] > 0
    /\ sw_ret[1].value[1][1] >= 2

\* C12: a call of start never raises and leaves both sub-stopwatches running
\* with an empty lap history, whatever the state before the call.
C12_StartResets ==
    sw_op = Some("start") =>
        /\ ~sw_ret[1].raised
        /\ \A c \in SubClocks :
              /\ is_running(sw[c])
              /\ sw[c].lap_times = <<>>
              /\ sw[c].lap_start = Some(sw_ret[1].at[ClockIndex(c)])

\* start was called on a running stopwatch that had recorded a lap
C12_Witness ==
    /\ sw_op = Some("start")
    /\ is_running(sw_prev[1].wall)
    /\ sw_prev[1].wall.lap_times # <<>>
    /\ sw.wall.lap_times = <<>>

\* C13: the wall and the processor sub-stopwatch always have the same running
\* flag and the same number of recorded laps.
C13_SubClocksInStep ==
    /\ is_running(sw.wall) = is_running(sw.cpu)
    /\ Len(sw.wall.lap_times) = Len(sw.cpu.lap_times)

\* a call raised on a stopwatch whose two clocks recorded different durations
C13_Witness ==
    /\ sw_ret # None
    /\ sw_ret[1].raised
    /\ sw.wall.lap_times # <<>>
    /\ sw.wall.lap_times # sw.cpu.lap_times

\* ==================================================== agents/dqn_agent.py
\* the scheduler and the stopwatch are not in use
SchedulerIdle ==
    /\ pc = "idle"
    /\ args = None
    /\ meta = DefaultMeta
    /\ disk = None
    /\ runs = 0
    /\ cur = None
    /\ configs = {}
    /\ log = None
    /\ started = <<>>
    /\ outcome = "none"
    /\ meta_before = DefaultMeta
    /\ invocation = 1
    /\ meta_start = DefaultMeta
    /\ seeds = {}
    /\ caps = {}
    /\ saved_run = None

StopwatchIdle ==
    /\ wall_now = 0
    /\ cpu_now = 0
    /\ sw = StopwatchInit(FALSE, 0, 0)
    /\ sw_op = None
    /\ sw_ret = None
    /\ sw_prev = None
    /\ sw_since = <<0, 0>>

\* arithmetic on the exact fractions that stand for floats
FAdd(x, y) == TrueDiv(x[1] * y[2] + y[1] * x[2], x[2] * y[2])

FMul(x, y) == TrueDiv(x[1] * y[1], x[2] * y[2])

FGreater(x, y) == x[1] * y[2] > y[1] * x[2]

\* line 74
TAU == <<1, 1000>>

\* line 76
UPDATE_EVERY == 3

\* 1 - TAU of line 196
OneMinusTAU == <<TAU[2] - TAU[1], TAU[2]>>

\* models/door_key_mlp.py: the one architecture class of the repository
DoorKeyMLP == [module |-> "academia.models.door_key_mlp", qualname |-> "DoorKeyMLP"]

\* The parameters of a network, all of them standing as one number: the values
\* the initialisation of a new module or an optimizer step may leave.
ParamValues == {<<0, 1>>, <<1, 1>>}

\* the seeds a generator is created from; an unseeded generator takes any
Seeds == {0, 1}

\* the state of a numpy Generator: the seed it started from and the number of
\* draws made since
RngOf(seed) == <<seed, 0>>

RngDraw(rng) == <<rng[1], rng[2] + 1>>

\* the constructor arguments tried: lines 79-85
AgentConfigs ==
    [n_actions : {NActions}, gamma : {<<99, 100>>},
     epsilon : {<<1, 1>>, <<1, 2>>}, epsilon_decay : {<<199, 200>>},
     min_epsilon : {<<1, 100>>}, batch_size : 1..MaxBatch]

\* __build_network: two calls of nn_architecture(), each initialising a new
\* module; w1 and w2 are the parameters the two initialisations drew
build_network(a, w1, w2) == [a EXCEPT !.network = w1, !.target_network = w2]

\* DQNAgent.__init__; seed is the generator's seed, the one given as
\* random_state or the one an unseeded generator took from the system
DQN_init(nn_architecture, cfg, seed, w1, w2) ==
    build_network(
        [n_actions |-> cfg.n_actions, gamma |-> cfg.gamma, epsilon |-> cfg.epsilon,
         epsilon_decay |-> cfg.epsilon_decay, min_epsilon |-> cfg.min_epsilon,
         rng |-> RngOf(seed), memory |-> <<>>, batch_size |-> cfg.batch_size,
         nn_architecture |-> nn_architecture, train_step |-> 0,
         network |-> None, target_network |-> None],
        w1, w2)

\* an append that refuses the new record when the deque is full
deque_append_drops_new(d, e, maxlen) ==
    IF maxlen = 0 THEN <<>>
    ELSE IF Len(d) >= maxlen THEN d
    ELSE Append(d, e)

\* collections.deque(maxlen=...).append
deque_append(d, e, maxlen) ==
    IF maxlen = 0 THEN <<>>
    ELSE IF Len(d) >= maxlen THEN Append(Tail(d), e)
    ELSE Append(d, e)

\* __remember
remember(a, e) == [a EXCEPT !.memory = deque_append(a.memory, e, REPLAY_MEMORY_SIZE)]

\* the rule with the weights of the two networks exchanged
soft_update_rule_swapped(tau, network_param, target_param) ==
    FAdd(FMul(tau, target_param), FMul(<<tau[2] - tau[1], tau[2]>>, network_param))

\* lines 195-196: TAU * network_param + (1 - TAU) * target_param, for the
\* value tau of self.TAU
soft_update_rule(tau, network_param, target_param) ==
    FAdd(FMul(tau, network_param), FMul(<<tau[2] - tau[1], tau[2]>>, target_param))

\* __soft_update_target
soft_update_target(a) ==
    [a EXCEPT !.target_network = soft_update_rule(TAU, a.network, a.target_network)]

\* an update that compares the batch size with the memory before the append
DQN_update_len_before_append(a, e, opt) ==
    LET a1 == remember(a, e)
        a2 == [a1 EXCEPT !.train_step = (a1.train_step + 1) % UPDATE_EVERY]
    IN IF a2.train_step = 0 /\ Len(a.memory) >= a2.batch_size
       THEN [agent |-> soft_update_target(
                          [a2 EXCEPT !.rng = RngDraw(a2.rng), !.network = opt]),
             learned |-> TRUE]
       ELSE [agent |-> a2, learned |-> FALSE]

\* an update that runs the soft update on every UPDATE_EVERY-th call
DQN_update_soft_every_time(a, e, opt) ==
    LET a1 == remember(a, e)
        a2 == [a1 EXCEPT !.train_step = (a1.train_step + 1) % UPDATE_EVERY]
    IN IF a2.train_step = 0
       THEN IF Len(a2.memory) >= a2.batch_size
            THEN [agent |-> soft_update_target(
                               [a2 EXCEPT !.rng = RngDraw(a2.rng), !.network = opt]),
                  learned |-> TRUE]
            ELSE [agent |-> soft_update_target(a2), learned |-> FALSE]
       ELSE [agent |-> a2, learned |-> FALSE]

\* DQNAgent.update.  e is the experience, opt the parameters the optimizer
\* step leaves in the primary network.  __replay makes one draw of the
\* generator; the optimizer holds the primary network's parameters only.
DQN_update(a, e, opt) ==
    LET a1 == remember(a, e)
        a2 == [a1 EXCEPT !.train_step = (a1.train_step + 1) % UPDATE_EVERY]
    IN IF a2.train_step = 0 /\ Len(a2.memory) >= a2.batch_size
       THEN [agent |-> soft_update_target(
                          [a2 EXCEPT !.rng = RngDraw(a2.rng), !.network = opt]),
             learned |-> TRUE]
       ELSE [agent |-> a2, learned |-> FALSE]

\* the smallest and the largest entry of a non-empty vector
VecMin(v) == CHOOSE x \in {v[i] : i \in DOMAIN v} : \A j \in DOMAIN v : x <= v[j]

VecMax(v) == CHOOSE x \in {v[i] : i \in DOMAIN v} : \A j \in DOMAIN v : x >= v[j]

\* torch.argmax: the zero-based index of the first maximal entry
argmax(v) == (CHOOSE i \in DOMAIN v : v[i] = VecMax(v) /\ \A j \in 1..(i - 1) : v[j] < v[i]) - 1

\* lines 172-173 without the mask added at the end
mask_q_values_no_offset(q, legal_mask) ==
    [i \in DOMAIN q |-> (q[i] - VecMin(q)) * legal_mask[i]]

\* lines 172-173: (q_val_act - torch.min(q_val_act)) * legal_mask + legal_mask
mask_q_values(q, legal_mask) ==
    [i \in DOMAIN q |-> (q[i] - VecMin(q)) * legal_mask[i] + legal_mask[i]]

\* the actions rng.choice may return under p = legal_mask / legal_mask.sum()
choice_support(legal_mask) == {i - 1 : i \in {j \in DOMAIN legal_mask : legal_mask[j] = 1}}

\* DQNAgent.get_action: every outcome it may have.  q is the output of the
\* primary network for the state, legal_mask None or a mask, u the number
\* rng.uniform() draws.
get_action(a, q, legal_mask, greedy, u) ==
    LET q_val_act == IF legal_mask = None THEN q ELSE mask_q_values(q, legal_mask[1])
        a1 == [a EXCEPT !.rng = RngDraw(a.rng)]
        a2 == [a1 EXCEPT !.rng = RngDraw(a1.rng)]
    IN IF FGreater(u, a.epsilon) \/ greedy
       THEN {[agent |-> a1, action |-> argmax(q_val_act), q_val_act |-> q_val_act,
              branch |-> "greedy"]}
       ELSE IF legal_mask # None
            THEN {[agent |-> a2, action |-> k, q_val_act |-> q_val_act,
                   branch |-> "choice"] : k \in choice_support(legal_mask[1])}
            ELSE {[agent |-> a2, action |-> k, q_val_act |-> q_val_act,
                   branch |-> "integers"] : k \in 0..(a.n_actions - 1)}

\* Agent.get_type_name_full and Agent.get_type: the full name of a class and
\* the class of a full name
get_type_name_full(cls) == <<cls.module, cls.qualname>>

get_type(name) == [module |-> name[1], qualname |-> name[2]]

\* DQNAgent.save: the two files written
DQN_save(a) ==
    [network_pth |-> a.network,
     state_agent_json |->
        [n_actions |-> a.n_actions, gamma |-> a.gamma, epsilon |-> a.epsilon,
         epsilon_decay |-> a.epsilon_decay, min_epsilon |-> a.min_epsilon,
         batch_size |-> a.batch_size,
         nn_architecture |-> get_type_name_full(a.nn_architecture),
         random_state |-> a.rng]]

\* a load that leaves the generator of the new agent as it was created
DQN_load_fresh_rng(files, seed, w1, w2) ==
    LET params == files.state_agent_json
        created == DQN_init(get_type(params.nn_architecture),
                            [n_actions |-> params.n_actions, gamma |-> params.gamma,
                             epsilon |-> params.epsilon,
                             epsilon_decay |-> params.epsilon_decay,
                             min_epsilon |-> params.min_epsilon,
                             batch_size |-> params.batch_size],
                            seed, w1, w2)
    IN [created EXCEPT !.network = files.network_pth,
                       !.target_network = files.network_pth]

\* a load that puts the saved parameters into the primary network only
DQN_load_primary_only(files, seed, w1, w2) ==
    LET params == files.state_agent_json
        created == DQN_init(get_type(params.nn_architecture),
                            [n_actions |-> params.n_actions, gamma |-> params.gamma,
                             epsilon |-> params.epsilon,
                             epsilon_decay |-> params.epsilon_decay,
                             min_epsilon |-> params.min_epsilon,
                             batch_size |-> params.batch_size],
                            seed, w1, w2)
    IN [created EXCEPT !.rng = params.random_state,
                       !.network = files.network_pth]

\* DQNAgent.load: cls(nn_architecture=..., **params) without random_state, so
\* the new agent's generator is unseeded and its networks newly initialised
\* (seed, w1, w2), before the saved state is put in
DQN_load(files, seed, w1, w2) ==
    LET params == files.state_agent_json
        created == DQN_init(get_type(params.nn_architecture),
                            [n_actions |-> params.n_actions, gamma |-> params.gamma,
                             epsilon |-> params.epsilon,
                             epsilon_decay |-> params.epsilon_decay,
                             min_epsilon |-> params.min_epsilon,
                             batch_size |-> params.batch_size],
                            seed, w1, w2)
    IN [created EXCEPT !.rng = params.random_state,
                       !.network = files.network_pth,
                       !.target_network = files.network_pth]

\* ------------------------------------------ the life of one DQNAgent
InitDQN ==
    /\ AgentIdle
    /\ CurricIdle
    /\ SchedulerIdle
    /\ StopwatchIdle

\* agent = DQNAgent(DoorKeyMLP, ...), with or without random_state
Construct ==
    /\ agent = None
    /\ \E cfg \in AgentConfigs, seed \in Seeds, w1 \in ParamValues, w2 \in ParamValues :
          agent' = Some(DQN_init(DoorKeyMLP, cfg, seed, w1, w2))
    /\ agent_call' = Some([name |-> "init", before |-> None, learned |-> FALSE])
    /\ inserted' = <<>>
    /\ loaded' = FALSE
    /\ UNCHANGED <<archive, curric_vars, sw_vars, sched_vars>>

\* the experience of step k of an episode that walks from state to state; the
\* reward alternates, so that no two records in the memory are equal
Experience(k) ==
    [state |-> k, action |-> 0, reward |-> k % 2, next_state |-> k + 1,
     done |-> FALSE]

\* agent.update(state, action, reward, new_state, is_terminal)
Update ==
    /\ agent # None
    /\ Len(inserted) < MaxUpdates
    /\ \E opt \in ParamValues :
          LET e == Experience(Len(inserted))
              res == DQN_update(agent[1], e, opt)
          IN /\ agent' = Some(res.agent)
             /\ agent_call' = Some([name |-> "update", before |-> agent,
                                    learned |-> res.learned])
             /\ inserted' = Append(inserted, e)
    /\ UNCHANGED <<archive, loaded, curric_vars, sw_vars, sched_vars>>

\* agent.save(path), once in the life of the files
Save ==
    /\ agent # None
    /\ archive = None
    /\ archive' = Some([files |-> DQN_save(agent[1]), saved |-> agent[1]])
    /\ agent_call' = Some([name |-> "save", before |-> agent, learned |-> FALSE])
    /\ UNCHANGED <<agent, inserted, loaded, curric_vars, sw_vars, sched_vars>>

\* agent = DQNAgent.load(path)
Load ==
    /\ archive # None
    /\ \E seed \in Seeds, w1 \in ParamValues, w2 \in ParamValues :
          agent' = Some(DQN_load(archive[1].files, seed, w1, w2))
    /\ agent_call' = Some([name |-> "load", before |-> agent, learned |-> FALSE])
    /\ inserted' = <<>>
    /\ loaded' = TRUE
    /\ UNCHANGED <<archive, curric_vars, sw_vars, sched_vars>>

NextDQN ==
    \/ Construct
    \/ Update
    \/ Save
    \/ Load

SpecDQN == InitDQN /\ [][NextDQN]_vars

\* ------------------------------------------ get_action on its own
\* the action values a network may output and the numbers uniform() may draw
QValues == {-2, 0, 3}

UniformDraws == {<<0, 1>>, <<3, 4>>}

\* every mask with a legal action
LegalMasks == {m \in [1..NActions -> {0, 1}] : \E i \in 1..NActions : m[i] = 1}

InitAct ==
    /\ \E cfg \in AgentConfigs, seed \in Seeds, w1 \in ParamValues, w2 \in ParamValues :
          agent = Some(DQN_init(DoorKeyMLP, cfg, seed, w1, w2))
    /\ agent_call = None
    /\ inserted = <<>>
    /\ archive = None
    /\ loaded = FALSE
    /\ CurricIdle
    /\ SchedulerIdle
    /\ StopwatchIdle

\* agent.get_action(state, legal_mask, greedy), once
GetAction ==
    /\ agent_call = None
    /\ \E q \in [1..NActions -> QValues],
          legal_mask \in {None} \cup {Some(m) : m \in LegalMasks},
          greedy \in BOOLEAN, u \in UniformDraws :
          \E out \in get_action(agent[1], q, legal_mask, greedy, u) :
              /\ agent' = Some(out.agent)
              /\ agent_call' = Some([name |-> "get_action", before |-> agent,
                                     q |-> q, legal_mask |-> legal_mask,
                                     greedy |-> greedy, action |-> out.action,
                                     q_val_act |-> out.q_val_act,
                                     branch |-> out.branch])
    /\ UNCHANGED <<inserted, archive, loaded, curric_vars, sw_vars, sched_vars>>

NextAct == GetAction

SpecAct == InitAct /\ [][NextAct]_vars

\* ------------------------------------------------ claims on the DQN agent
\* the last n elements of a sequence, all of it when it is shorter
LastN(q, n) == IF Len(q) <= n THEN q ELSE SubSeq(q, Len(q) - n + 1, Len(q))

\* C14: the replay memory never holds more than REPLAY_MEMORY_SIZE records,
\* and it always holds the most recently inserted ones in insertion order:
\* all of them up to the capacity, exactly the last REPLAY_MEMORY_SIZE beyond.
C14_ReplayMemoryKeepsMostRecent ==
    agent # None =>
        /\ Len(agent[1].memory) <= REPLAY_MEMORY_SIZE
        /\ agent[1].memory = LastN(inserted, REPLAY_MEMORY_SIZE)
        /\ Len(inserted) > REPLAY_MEMORY_SIZE =>
              Len(agent[1].memory) = REPLAY_MEMORY_SIZE

\* more records were inserted than the memory holds: the oldest is gone
C14_Witness ==
    /\ agent # None
    /\ Len(inserted) > REPLAY_MEMORY_SIZE
    /\ agent[1].memory # <<>>
    /\ Head(agent[1].memory) # Head(inserted)
    /\ agent[1].memory[Len(agent[1].memory)] = inserted[Len(inserted)]

\* the agent an update call was made on
UpdateBefore == agent_call[1].before[1]

IsUpdate == agent_call # None /\ agent_call[1].name = "update"

\* C15: every update call appends its record and advances train_step modulo
\* UPDATE_EVERY, whatever the size of the memory; it runs a learning step
\* exactly when train_step wraps to 0 and the memory, with the record just
\* appended, holds at least batch_size records.
C15_LearnsOnEveryKthCallWithFullBatch ==
    IsUpdate =>
        /\ agent[1].memory # <<>>
        /\ agent[1].memory[Len(agent[1].memory)] = inserted[Len(inserted)]
        /\ agent[1].train_step = (UpdateBefore.train_step + 1) % UPDATE_EVERY
        /\ agent[1].train_step = Len(inserted) % UPDATE_EVERY
        /\ agent_call[1].learned <=>
              /\ agent[1].train_step = 0
              /\ Len(agent[1].memory) >= agent[1].batch_size

\* a learning step ran on the call whose record brought the memory up to
\* batch_size
C15_Witness ==
    /\ IsUpdate
    /\ agent_call[1].learned
    /\ Len(agent[1].memory) = agent[1].batch_size
    /\ Len(UpdateBefore.memory) < agent[1].batch_size

\* C16: an update call that runs a learning step leaves the target
\* parameters at TAU * primary + (1 - TAU) * target, of the primary parameters
\* after the optimizer step and the target parameters before the call: the
\* optimizer step did not write them and the soft update ran once.  An update
\* call without a learning step leaves both networks as they were.
C16_TargetWrittenBySoftUpdateOnly ==
    IsUpdate =>
        IF agent_call[1].learned
        THEN agent[1].target_network =
                FAdd(FMul(TAU, agent[1].network),
                     FMul(OneMinusTAU, UpdateBefore.target_network))
        ELSE /\ agent[1].target_network = UpdateBefore.target_network
             /\ agent[1].network = UpdateBefore.network

\* a learning step changed the primary parameters and moved the target
\* parameters, which still differ from the primary ones
C16_Witness ==
    /\ IsUpdate
    /\ agent_call[1].learned
    /\ agent[1].network # UpdateBefore.network
    /\ agent[1].target_network # UpdateBefore.target_network
    /\ agent[1].target_network # agent[1].network

IsMaskedGetAction ==
    /\ agent_call # None
    /\ agent_call[1].name = "get_action"
    /\ agent_call[1].legal_mask # None

\* C17: with a non-empty mask the masked action values are at least 1 for
\* every legal action and exactly 0 for every illegal one, and get_action
\* returns a legal action in the greedy and in the exploring branch.
C17_MaskedActionIsLegal ==
    IsMaskedGetAction =>
        LET mask == agent_call[1].legal_mask[1]
            v == agent_call[1].q_val_act
        IN /\ \A i \in 1..NActions :
                 /\ mask[i] = 1 => v[i] >= 1
                 /\ mask[i] = 0 => v[i] = 0
           /\ agent_call[1].action \in 0..(NActions - 1)
           /\ mask[agent_call[1].action + 1] = 1

\* the greedy branch returned a legal action although the first action is
\* illegal with the largest raw value and a legal action has the smallest
C17_Witness ==
    /\ IsMaskedGetAction
    /\ agent_call[1].branch = "greedy"
    /\ agent_call[1].legal_mask[1][1] = 0
    /\ agent_call[1].q[1] = VecMax(agent_call[1].q)
    /\ agent_call[1].q[1] > VecMin(agent_call[1].q)
    /\ agent_call[1].q[agent_call[1].action + 1] = VecMin(agent_call[1].q)

IsLoad == agent_call # None /\ agent_call[1].name = "load"

\* C18: the agent load returns has the action count, gamma, epsilon, epsilon
\* decay, epsilon floor, batch size and architecture of the agent that was
\* saved, the generator state that agent had when it was saved, and primary
\* and target parameters both equal to that agent's primary parameters.
C18_LoadRestoresSavedAgent ==
    IsLoad =>
        LET a == agent[1]
            saved == archive[1].saved
        IN /\ a.n_actions = saved.n_actions
           /\ a.gamma = saved.gamma
           /\ a.epsilon = saved.epsilon
           /\ a.epsilon_decay = saved.epsilon_decay
           /\ a.min_epsilon = saved.min_epsilon
           /\ a.batch_size = saved.batch_size
           /\ a.nn_architecture = saved.nn_architecture
           /\ a.rng = saved.rng
           /\ a.network = saved.network
           /\ a.target_network = saved.network

\* an agent was loaded that had been saved after a learning step, with its
\* target parameters different from the primary ones
C18_Witness ==
    /\ IsLoad
    /\ archive[1].saved.rng[2] > 0
    /\ archive[1].saved.target_network # archive[1].saved.network
    /\ archive[1].saved.memory # <<>>
    /\ agent[1].target_network = archive[1].saved.network

\* C19: immediately after construction the target parameters equal the
\* primary parameters.
C19_TargetEqualsPrimaryAtConstruction ==
    (agent_call # None /\ agent_call[1].name = "init") =>
        agent[1].target_network = agent[1].network

\* =============================================== curriculum/curriculum.py
\* A path is the list of its directories, the name of the file and the
\* extension the name ends with; every path is relative to the working
\* directory of the process.
Path(dir, name, ext) == [dir |-> dir, name |-> name, ext |-> ext]

\* the extensions for which path.endswith('.yml') holds
YmlExts == {".yml", ".curriculum.yml", ".task.yml"}

\* lines 62-63 and 79-80: the path with '.curriculum.yml' added when it does
\* not end with '.yml'
curriculum_file_path(path) ==
    IF path.ext \in YmlExts THEN path ELSE [path EXCEPT !.ext = ".curriculum.yml"]

\* os.path.normpath on the directories of a path: '..' removes the directory
\* before it
RECURSIVE normpath(_, _)
normpath(done, rest) ==
    IF rest = <<>> THEN done
    ELSE IF Head(rest) = ".."
         THEN normpath(IF done = <<>> THEN <<>> ELSE SubSeq(done, 1, Len(done) - 1),
                       Tail(rest))
         ELSE normpath(Append(done, Head(rest)), Tail(rest))

\* line 69: os.path.abspath(os.path.join(directory, task_data['path']))
task_file_path(directory, rel) == [rel EXCEPT !.dir = normpath(<<>>, directory \o rel.dir)]

\* the file a path names
FileKey(path) == [path EXCEPT !.dir = normpath(<<>>, path.dir)]

\* the task configurations tried: what a LearningTask is constructed from
TaskConfigs == {[env_args |-> d, stop_conditions |-> "max_episodes"] : d \in 0..1}

\* a LearningTask that has not run: its configuration and empty statistics
NewTask(cfg) == [config |-> cfg, episode_rewards |-> <<>>]

\* LearningTask.to_dict and LearningTask.from_dict: a task's configuration as
\* a dict, and the task constructed from such a dict
LearningTask_to_dict(task) == task.config

LearningTask_from_dict(task_data) == NewTask(task_data)

\* LearningTask.load: the task constructed from the dict in a task file
LearningTask_load(files, path) == LearningTask_from_dict(files[FileKey(path)][1].data)

\* the files of the model
UserPath == Path(<<"exp">>, "user", ".curriculum.yml")

RelTaskA == Path(<<"tasks">>, "a", ".task.yml")

RelTaskB == Path(<<"..", "shared">>, "b", ".task.yml")

TaskPathA == Path(<<"exp", "tasks">>, "a", ".task.yml")

TaskPathB == Path(<<"shared">>, "b", ".task.yml")

SavePaths ==
    {Path(<<"exp">>, "saved", ""), Path(<<"out", "deep">>, "c", ".yml"),
     Path(<<>>, "bare", "")}

AllFiles ==
    {UserPath, TaskPathA, TaskPathB} \cup {FileKey(curriculum_file_path(p)) : p \in SavePaths}

\* a save that numbers the task records from the last task to the first
Curriculum_save_reversed_keys(c, files, path) ==
    LET p == curriculum_file_path(path)
        n == Len(c.tasks)
        curr_data == [order |-> [i \in 1..n |-> i - 1],
                      tasks |-> [i \in 0..(n - 1) |-> LearningTask_to_dict(c.tasks[n - i])]]
    IN IF p.dir = <<>>
       THEN [raised |-> TRUE, files |-> files]
       ELSE [raised |-> FALSE,
             files |-> [files EXCEPT ![FileKey(p)] =
                           Some([data |-> curr_data, origin |-> Some(c.tasks)])]]

\* Curriculum.save.  os.makedirs raises FileNotFoundError when the path has no
\* directory part.  A file keeps, next to its data, the task list it was
\* written from (None for a file the user wrote).
Curriculum_save(c, files, path) ==
    LET p == curriculum_file_path(path)
        n == Len(c.tasks)
        curr_data == [order |-> [i \in 1..n |-> i - 1],
                      tasks |-> [i \in 0..(n - 1) |-> LearningTask_to_dict(c.tasks[i + 1])]]
    IN IF p.dir = <<>>
       THEN [raised |-> TRUE, files |-> files]
       ELSE [raised |-> FALSE,
             files |-> [files EXCEPT ![FileKey(p)] =
                           Some([data |-> curr_data, origin |-> Some(c.tasks)])]]

\* Curriculum.load.  open raises FileNotFoundError when the file is missing.
Curriculum_load(files, path) ==
    LET p == curriculum_file_path(path)
    IN IF files[FileKey(p)] = None
       THEN [raised |-> TRUE, curriculum |-> None]
       ELSE LET curriculum_data == files[FileKey(p)][1].data
                directory == p.dir
                order == curriculum_data.order
                task_of(task_id) ==
                    LET task_data == curriculum_data.tasks[task_id]
                    IN IF "path" \notin DOMAIN task_data
                       THEN LearningTask_from_dict(task_data)
                       ELSE LearningTask_load(files,
                                task_file_path(directory, task_data.path))
            IN [raised |-> FALSE,
                curriculum |-> Some([tasks |-> [k \in 1..Len(order) |-> task_of(order[k])]])]

\* the curriculum files a user may write: an order over some of the task ids
\* and, for each id, an inline task record or a reference to a task file
TaskIds == 1..MaxTasks

Orders ==
    {o \in UNION {[1..n -> TaskIds] : n \in 1..MaxTasks} :
        \A i \in DOMAIN o, j \in DOMAIN o : i # j => o[i] # o[j]}

TaskEntries == TaskConfigs \cup {[path |-> RelTaskA], [path |-> RelTaskB]}

UserFiles == {[order |-> o, tasks |-> t] : o \in Orders, t \in [TaskIds -> TaskEntries]}

InitCurric ==
    /\ \E u \in UserFiles :
          fs = [f \in AllFiles |->
                  IF f = UserPath THEN Some([data |-> u, origin |-> None])
                  ELSE IF f = TaskPathA
                       THEN Some([data |-> [env_args |-> 2, stop_conditions |-> "max_steps"],
                                  origin |-> None])
                  ELSE IF f = TaskPathB
                       THEN Some([data |-> [env_args |-> 3, stop_conditions |-> "min_avg_reward"],
                                  origin |-> None])
                  ELSE None]
    /\ curric = None
    /\ curric_call = None
    /\ crun = None
    /\ AgentIdle
    /\ SchedulerIdle
    /\ StopwatchIdle

\* curriculum = Curriculum.load(path)
LoadCurriculum ==
    /\ \E path \in {UserPath} \cup SavePaths :
          LET res == Curriculum_load(fs, path)
          IN /\ curric' = IF res.raised THEN curric ELSE res.curriculum
             /\ curric_call' = Some([name |-> "load", path |-> path, raised |-> res.raised])
    /\ UNCHANGED <<fs, crun, agent_vars, sw_vars, sched_vars>>

\* curriculum.save(path)
SaveCurriculum ==
    /\ curric # None
    /\ \E path \in SavePaths :
          LET res == Curriculum_save(curric[1], fs, path)
          IN /\ fs' = res.files
             /\ curric_call' = Some([name |-> "save", path |-> path, raised |-> res.raised])
    /\ UNCHANGED <<curric, crun, agent_vars, sw_vars, sched_vars>>

NextCurric ==
    \/ LoadCurriculum
    \/ SaveCurriculum

SpecCurric == InitCurric /\ [][NextCurric]_vars

\* ------------------------------------------------ claims on the curriculum
\* the task a record of a curriculum file stands for: the inline record's
\* task, or the task of the file its path names from the directory dir
TaskOfEntry(entry, dir) ==
    IF "path" \in DOMAIN entry
    THEN NewTask(fs[[entry.path EXCEPT !.dir = normpath(<<>>, dir \o entry.path.dir)]][1].data)
    ELSE NewTask(entry)

IsCurricLoad ==
    /\ curric_call # None
    /\ curric_call[1].name = "load"
    /\ ~curric_call[1].raised

LoadedFile == fs[FileKey(curriculum_file_path(curric_call[1].path))][1]

\* C20: a curriculum loaded from a file that save wrote has the task list that
\* was saved: the same length, the same tasks, the same order.  A curriculum
\* loaded from a file the user wrote has, in the order of the file's 'order'
\* list, the task of each inline record and the task of each referenced file,
\* found from the directory of the curriculum file.
C20_SaveLoadKeepsTaskList ==
    IsCurricLoad =>
        IF LoadedFile.origin # None
        THEN curric[1].tasks = LoadedFile.origin[1]
        ELSE /\ Len(curric[1].tasks) = Len(LoadedFile.data.order)
             /\ \A k \in 1..Len(LoadedFile.data.order) :
                   curric[1].tasks[k] =
                       TaskOfEntry(LoadedFile.data.tasks[LoadedFile.data.order[k]],
                                   curriculum_file_path(curric_call[1].path).dir)

\* a saved curriculum was loaded back whose own source file lists an inline
\* task and a referenced task file, in an order that is not that of the ids
C20_Witness ==
    /\ IsCurricLoad
    /\ LoadedFile.origin # None
    /\ Len(curric[1].tasks) = 2
    /\ fs[UserPath][1].data.order = <<2, 1>>
    /\ "path" \in DOMAIN fs[UserPath][1].data.tasks[2]
    /\ "path" \notin DOMAIN fs[UserPath][1].data.tasks[1]
    /\ curric[1].tasks[1].config.env_args >= 2
    /\ curric[1].tasks[2].config.env_args <= 1

\* ------------------------------------------------------- Curriculum.run
\* the agent objects run may be given
AgentIds == {"agent_a", "agent_b"}

\* a curriculum constructed from a list of tasks that have not run
TaskLists == UNION {[1..n -> {NewTask(cfg) : cfg \in TaskConfigs}] : n \in 0..MaxTasks}

InitRun ==
    /\ \E tasks \in TaskLists : curric = Some([tasks |-> tasks])
    /\ fs = None
    /\ curric_call = None
    /\ crun = None
    /\ AgentIdle
    /\ SchedulerIdle
    /\ StopwatchIdle

\* curriculum.run(agent, verbose): lines 23-24, before the loop.  i is the
\* index enumerate has reached, in_task whether task.run is executing, events
\* the calls of task.run and how each ended, laps the calls of stopwatch.lap.
CurriculumRun ==
    /\ crun = None
    /\ \E a \in AgentIds, verbose \in 0..1 :
          crun' = Some([agent |-> a, verbose |-> verbose, i |-> 0, in_task |-> FALSE,
                        total_episodes |-> 0, laps |-> 0, events |-> <<>>,
                        status |-> "running"])
    /\ curric_call' = Some([name |-> "run", path |-> None, raised |-> FALSE])
    /\ UNCHANGED <<fs, curric, agent_vars, sw_vars, sched_vars>>

RunInLoop == crun # None /\ crun[1].status = "running"

\* line 28: task.run(agent, ...) is called for the next task of the list
TaskStart ==
    /\ RunInLoop
    /\ ~crun[1].in_task
    /\ crun[1].i < Len(curric[1].tasks)
    /\ crun' = Some([crun[1] EXCEPT
                        !.in_task = TRUE,
                        !.events = Append(@, <<"start", crun[1].i + 1, crun[1].agent>>)])
    /\ UNCHANGED <<fs, curric, curric_call, agent_vars, sw_vars, sched_vars>>

\* lines 29-36: task.run returns, having recorded its episodes
TaskReturns ==
    /\ RunInLoop
    /\ crun[1].in_task
    /\ \E episodes \in 0..1 :
          LET k == crun[1].i + 1
              rewards == IF episodes = 0 THEN <<>> ELSE <<0>>
          IN /\ curric' = Some([curric[1] EXCEPT !.tasks[k].episode_rewards = rewards])
             /\ crun' = Some([crun[1] EXCEPT
                                 !.in_task = FALSE,
                                 !.i = k,
                                 !.total_episodes = @ + Len(rewards),
                                 !.laps = IF crun[1].verbose >= 1 THEN @ + 1 ELSE @,
                                 !.events = Append(@, <<"return", k, crun[1].agent>>)])
    /\ UNCHANGED <<fs, curric_call, agent_vars, sw_vars, sched_vars>>

\* a run that goes on with the next task after a task has raised
TaskRaises_continues ==
    /\ RunInLoop
    /\ crun[1].in_task
    /\ crun' = Some([crun[1] EXCEPT
                        !.in_task = FALSE,
                        !.i = crun[1].i + 1,
                        !.events = Append(@, <<"raise", crun[1].i + 1, crun[1].agent>>)])
    /\ curric_call' = Some([name |-> "run", path |-> None, raised |-> TRUE])
    /\ UNCHANGED <<fs, curric, agent_vars, sw_vars, sched_vars>>

\* line 28: task.run raises; nothing in run catches it, so run ends with it
TaskRaises ==
    /\ RunInLoop
    /\ crun[1].in_task
    /\ crun' = Some([crun[1] EXCEPT
                        !.in_task = FALSE,
                        !.status = "raised",
                        !.events = Append(@, <<"raise", crun[1].i + 1, crun[1].agent>>)])
    /\ curric_call' = Some([name |-> "run", path |-> None, raised |-> TRUE])
    /\ UNCHANGED <<fs, curric, agent_vars, sw_vars, sched_vars>>

\* lines 37-41: the list is exhausted and run returns
RunEnds ==
    /\ RunInLoop
    /\ ~crun[1].in_task
    /\ crun[1].i = Len(curric[1].tasks)
    /\ crun' = Some([crun[1] EXCEPT !.status = "returned"])
    /\ UNCHANGED <<fs, curric, curric_call, agent_vars, sw_vars, sched_vars>>

NextRun ==
    \/ CurriculumRun
    \/ TaskStart
    \/ TaskReturns
    \/ TaskRaises
    \/ RunEnds

SpecRun == InitRun /\ [][NextRun]_vars

\* C21: the calls of task.run are made in list order, each with the agent
\* run was given, and each only after the call before it has returned; a
\* call that raises is the last one; when run returns every task has been
\* run exactly once.
C21_TasksRunOnceInOrder ==
    crun # None =>
        LET ev == crun[1].events
            n == Len(curric[1].tasks)
        IN /\ Len(ev) <= 2 * n
           /\ \A p \in 1..Len(ev) :
                 IF p % 2 = 1
                 THEN ev[p] = <<"start", (p + 1) \div 2, crun[1].agent>>
                 ELSE /\ ev[p] \in {<<"return", p \div 2, crun[1].agent>>,
                                    <<"raise", p \div 2, crun[1].agent>>}
                      /\ ev[p][1] = "raise" => (p = Len(ev) /\ crun[1].status = "raised")
           /\ crun[1].status = "returned" =>
                 /\ Len(ev) = 2 * n
                 /\ \A k \in 1..n : ev[2 * k] = <<"return", k, crun[1].agent>>
           /\ crun[1].status = "raised" => ev[Len(ev)][1] = "raise"

\* the first of two tasks raised and run ended without starting the second
C21_Witness ==
    /\ crun # None
    /\ crun[1].status = "raised"
    /\ Len(curric[1].tasks) = 2
    /\ Len(crun[1].events) = 2

\* ------------------------------------- __soft_update_target on its own
\* the values of TAU tried, from 0 to 1
Taus == {<<0, 1>>, <<1, 10>>, <<1, 2>>, <<1, 1>>}

\* the parameter values the two networks start from
SoftParamValues == {<<-1, 1>>, <<0, 1>>, <<1, 1>>, <<2, 1>>}

\* the part of an agent the soft update reads and writes, for an agent class
\* whose TAU is tau
InitSoft ==
    /\ \E tau \in Taus, w1 \in SoftParamValues, w2 \in SoftParamValues :
          agent = Some([TAU |-> tau, network |-> w1, target_network |-> w2])
    /\ agent_call = None
    /\ inserted = <<>>
    /\ archive = None
    /\ loaded = FALSE
    /\ CurricIdle
    /\ SchedulerIdle
    /\ StopwatchIdle

\* one call of __soft_update_target with the primary parameters held fixed
SoftUpdate ==
    /\ IF agent_call = None THEN TRUE ELSE agent_call[1].calls < MaxSoftCalls
    /\ agent' = Some([agent[1] EXCEPT !.target_network =
                         soft_update_rule(agent[1].TAU, agent[1].network,
                                          agent[1].target_network)])
    /\ agent_call' = Some([name |-> "soft_update", before |-> agent,
                           calls |-> IF agent_call = None THEN 1
                                     ELSE agent_call[1].calls + 1])
    /\ UNCHANGED <<inserted, archive, loaded, curric_vars, sw_vars, sched_vars>>

NextSoft == SoftUpdate

SpecSoft == InitSoft /\ [][NextSoft]_vars

\* |x - y| of two fractions, and x <= y
FDist(x, y) ==
    LET n == x[1] * y[2] - y[1] * x[2]
    IN TrueDiv(IF n < 0 THEN 0 - n ELSE n, x[2] * y[2])

FLeq(x, y) == x[1] * y[2] <= y[1] * x[2]

IsSoftUpdate == agent_call # None /\ agent_call[1].name = "soft_update"

\* C22: a soft update leaves the primary parameters as they were and sets the
\* target parameters to tau * primary + (1 - tau) * target; the distance
\* between target and primary becomes (1 - tau) times what it was, so it
\* never grows, and with tau = 1 the target equals the primary after one call.
C22_SoftUpdateMovesTargetToPrimary ==
    IsSoftUpdate =>
        LET a == agent[1]
            b == agent_call[1].before[1]
            tau == a.TAU
        IN /\ a.network = b.network
           /\ a.TAU = b.TAU
           /\ a.target_network[1] * tau[2] * b.network[2] * b.target_network[2] =
                 a.target_network[2] *
                    (tau[1] * b.network[1] * b.target_network[2]
                       + (tau[2] - tau[1]) * b.target_network[1] * b.network[2])
           /\ FLeq(FDist(a.target_network, a.network),
                   FDist(b.target_network, b.network))
           /\ FDist(a.target_network, a.network) =
                 FMul(<<tau[2] - tau[1], tau[2]>>, FDist(b.target_network, b.network))
           /\ tau = <<1, 1>> => a.target_network = a.network

\* a second soft update with tau strictly between 0 and 1 brought the target
\* closer to a primary it still differs from
C22_Witness ==
    /\ IsSoftUpdate
    /\ agent_call[1].calls = 2
    /\ agent[1].TAU = <<1, 2>>
    /\ agent[1].target_network # agent[1].network
    /\ FDist(agent[1].target_network, agent[1].network) #
          FDist(agent_call[1].before[1].target_network, agent[1].network)

\* ============================================ the tabular agent (QLAgent)
\* test_ql_agent.py, lines 10-26: the fixture of test_update
test_alpha == <<1, 10>>

test_gamma == <<9, 10>>

test_n_actions == 3

test_action == 0

test_reward == 5

FracVec(v) == [i \in DOMAIN v |-> <<v[i], 1>>]

init_q_values ==
    [mock_state |-> FracVec(<<0, 0, 1>>), mock_new_state |-> FracVec(<<1, 2, 1>>)]

\* np.max of a vector of fractions
FVecMax(v) == CHOOSE x \in {v[i] : i \in DOMAIN v} : \A j \in DOMAIN v : FLeq(v[j], x)

\* lines 37-38: the value the test expects in q_table[mock_state][action]
expected_q_value ==
    FAdd(FMul(<<test_alpha[2] - test_alpha[1], test_alpha[2]>>,
              init_q_values.mock_state[test_action + 1]),
         FMul(test_alpha,
              FAdd(<<test_reward, 1>>,
                   FMul(test_gamma, FVecMax(init_q_values.mock_new_state)))))

\* the states of the tables tried
QLStates == {"mock_state", "mock_new_state"}

\* an update that bootstraps from the value of the action taken
QLAgent_update_same_action(a, state, action, reward, new_state, is_terminal) ==
    LET q == a.q_table[state][action + 1]
        target == IF is_terminal THEN <<reward, 1>>
                  ELSE FAdd(<<reward, 1>>,
                            FMul(a.gamma, a.q_table[new_state][action + 1]))
    IN [a EXCEPT !.q_table[state][action + 1] =
            FAdd(FMul(<<a.alpha[2] - a.alpha[1], a.alpha[2]>>, q), FMul(a.alpha, target))]

\* QLAgent.update: Q(s,a) <- (1 - alpha) * Q(s,a) + alpha * (r + gamma *
\* max Q(s')), without the bootstrap term on a terminal transition
QLAgent_update(a, state, action, reward, new_state, is_terminal) ==
    LET q == a.q_table[state][action + 1]
        target == IF is_terminal THEN <<reward, 1>>
                  ELSE FAdd(<<reward, 1>>,
                            FMul(a.gamma, FVecMax(a.q_table[new_state])))
    IN [a EXCEPT !.q_table[state][action + 1] =
            FAdd(FMul(<<a.alpha[2] - a.alpha[1], a.alpha[2]>>, q), FMul(a.alpha, target))]

\* lines 12-22: the agent with its table filled in, for the test's values and
\* for others
QLValueVectors == {FracVec(v) : v \in [1..test_n_actions -> 0..2]}

InitQL ==
    /\ \E alpha \in {test_alpha, <<1, 2>>}, gamma \in {test_gamma, <<1, 1>>},
          q1 \in QLValueVectors, q2 \in QLValueVectors :
          agent = Some([n_actions |-> test_n_actions, alpha |-> alpha, gamma |-> gamma,
                        q_table |-> [mock_state |-> q1, mock_new_state |-> q2]])
    /\ agent_call = None
    /\ inserted = <<>>
    /\ archive = None
    /\ loaded = FALSE
    /\ CurricIdle
    /\ SchedulerIdle
    /\ StopwatchIdle

\* lines 28-34: sut.update(state, action, reward, new_state, is_terminal) on a
\* transition between the two states
QLUpdate ==
    /\ agent_call = None
    /\ \E state \in QLStates, action \in 0..(test_n_actions - 1),
          reward \in {0, test_reward}, is_terminal \in BOOLEAN :
          LET new_state == CHOOSE x \in QLStates : x # state
          IN /\ agent' = Some(QLAgent_update(agent[1], state, action, reward,
                                             new_state, is_terminal))
             /\ agent_call' = Some([name |-> "ql_update", before |-> agent,
                                    state |-> state, action |-> action,
                                    reward |-> reward, new_state |-> new_state,
                                    is_terminal |-> is_terminal])
    /\ UNCHANGED <<inserted, archive, loaded, curric_vars, sw_vars, sched_vars>>

NextQL == QLUpdate

SpecQL == InitQL /\ [][NextQL]_vars

IsQLUpdate == agent_call # None /\ agent_call[1].name = "ql_update"

\* the call of the test on the table of the test
IsTestCase ==
    /\ IsQLUpdate
    /\ agent_call[1].before[1].alpha = test_alpha
    /\ agent_call[1].before[1].gamma = test_gamma
    /\ agent_call[1].before[1].q_table = init_q_values
    /\ agent_call[1].state = "mock_state"
    /\ agent_call[1].action = test_action
    /\ agent_call[1].reward = test_reward
    /\ ~agent_call[1].is_terminal

\* the rule on the table before the call, and the entries it leaves alone
QLRuleHolds ==
    (IsQLUpdate /\ ~agent_call[1].is_terminal) =>
        LET c == agent_call[1]
            b == c.before[1]
            new == agent[1].q_table[c.state][c.action + 1]
            old == b.q_table[c.state][c.action + 1]
            best == FVecMax(b.q_table[c.new_state])
            al == b.alpha
            ga == b.gamma
        IN \* new = ((al2 - al1) * old + al1 * (r + ga * best)) / al2, cross-multiplied
           /\ new[1] * al[2] * old[2] * ga[2] * best[2] =
                 new[2] * ((al[2] - al[1]) * old[1] * ga[2] * best[2]
                             + al[1] * old[2] * (c.reward * ga[2] * best[2]
                                                   + ga[1] * best[1]))
           /\ \A i \in 1..test_n_actions :
                 i # c.action + 1 =>
                     agent[1].q_table[c.state][i] = b.q_table[c.state][i]
           /\ agent[1].q_table[c.new_state] = b.q_table[c.new_state]

InCampaign == pc \in {"loop", "running", "done", "aborted"}

\* C24: in a campaign that starts with all counters 0, in memory and in
\* meta.json, every family's curr_runs and nocurr_runs are within 0..n_runs
\* and nocurr_runs > 0 only when curr_runs = n_runs, also after interrupted
\* runs; the step cap of a no-curriculum run is computed with n_runs > 0.
C24_CountersWithinBudget ==
    InCampaign =>
        /\ \A m \in {meta, load_meta(disk)} :
              \A f \in Families :
                  /\ m[f].curr_runs \in 0..m.n_runs
                  /\ m[f].nocurr_runs \in 0..m.n_runs
                  /\ m[f].nocurr_runs > 0 => m[f].curr_runs = m.n_runs
        /\ (pc = "running" /\ cur[1].runnable_type = "nocurr") => meta.n_runs > 0

\* after an interrupted no-curriculum run the family has both arms complete
C24_Witness ==
    /\ pc = "loop"
    /\ outcome = "interrupted"
    /\ cur[1].runnable_type = "nocurr"
    /\ meta[cur[1].agent_type].nocurr_runs = meta.n_runs
    /\ meta[cur[1].agent_type].curr_runs = meta.n_runs
    /\ meta.n_runs = MaxNRuns

\* the counters after a run that was executed, against those before it: the
\* counter of the run's arm is one higher, curr_steps_sum of the family has
\* grown only if the run was a curriculum run, and the family's other
\* counter, the other family's entry and n_runs are as they were
RunCountedOnce ==
    (pc = "loop" /\ outcome \in {"returned", "interrupted"}) =>
        LET family == cur[1].agent_type
            kind == cur[1].runnable_type
        IN /\ ArmCounter(meta, <<family, kind>>)
                 = ArmCounter(meta_before, <<family, kind>>) + 1
           /\ \A arm \in {ArmOrder[k] : k \in 1..4} \ {<<family, kind>>} :
                 ArmCounter(meta, arm) = ArmCounter(meta_before, arm)
           /\ IF kind = "curr"
              THEN meta[family].curr_steps_sum >= meta_before[family].curr_steps_sum
              ELSE meta[family].curr_steps_sum = meta_before[family].curr_steps_sum
           /\ \A f \in Families \ {family} : meta[f] = meta_before[f]
           /\ meta.n_runs = meta_before.n_runs

\* every no-curriculum run of a family started in the campaign was given the
\* same step cap
SameCapPerFamily == \A x \in caps, y \in caps : x[1] = y[1] => x[2] = y[2]

\* C25 (as claimed): every executed run increments the counter of its own arm
\* by 1 and no other, curr_steps_sum changes only on the family's curriculum
\* runs, the other family's entry and n_runs do not change, and every
\* no-curriculum run of a family receives the same step cap.
C25_OneCounterPerRunAndOneCap ==
    /\ RunCountedOnce
    /\ SameCapPerFamily

\* ------------------------------------------------ the loop after an interrupt
\* the arm of the run whose interrupt last wrote meta.json
InterruptedArm == <<saved_run[1].agent_type, saved_run[1].runnable_type>>

\* the file d counts the run whose interrupt last wrote meta.json
FileHoldsInterruptedRun(d) ==
    ArmCounter(load_meta(d), InterruptedArm) > saved_run[1].i

\* a step in which runnable.run raises KeyboardInterrupt
IsInterrupt == pc = "running" /\ outcome' = "interrupted"

\* the except branch writes the counters of before the run and the loop goes on
InterruptKeepsLoop ==
    IsInterrupt =>
        /\ pc' = "loop"
        /\ runs' = runs
        /\ disk' = Some(meta)
        /\ ~FileHoldsInterruptedRun(disk)'
        /\ ArmCounter(meta', InterruptedArm') = saved_run'[1].i + 1

\* the iteration after an interrupted run: a run is started when the limits
\* allow it and an arm qualifies, and the loop exits with the final write of
\* the file when not
NextIterationAfterInterrupt ==
    (pc = "loop" /\ outcome = "interrupted") =>
        IF ~runs_limit_reached /\ ~time_limit_reached /\ next_run[1] # None
        THEN /\ pc' = "running"
             /\ started' = Append(started, next_run)
             /\ disk' = disk
        ELSE /\ pc' = "done"
             /\ disk' = Some(meta)
             /\ FileHoldsInterruptedRun(disk')

\* C26 (as claimed): an interrupt during a run leaves the scheduler in its
\* loop with meta.json written, the next iteration starts another run when the
\* limits allow it and an arm qualifies, and meta.json does not count the
\* interrupted run before the loop exits.
C26_InterruptedRunOffFileUntilExit ==
    [][/\ InterruptKeepsLoop
       /\ NextIterationAfterInterrupt
       /\ (saved_run # None /\ pc' # "done") => ~FileHoldsInterruptedRun(disk')
      ]_vars

\* C26: an interrupt during a run leaves the scheduler in its loop with
\* meta.json written, the next iteration starts another run when the limits
\* allow it and an arm qualifies, and meta.json does not count the interrupted
\* run until it is next written, which happens at the next interrupt of the
\* invocation or when the loop exits, and then it counts it.
C26_InterruptedRunOffFileUntilNextWrite ==
    [][/\ InterruptKeepsLoop
       /\ NextIterationAfterInterrupt
       /\ saved_run # None =>
             IF disk' = disk
             THEN ~FileHoldsInterruptedRun(disk')
             ELSE /\ FileHoldsInterruptedRun(disk')
                  /\ pc' = "done" \/ IsInterrupt
      ]_vars

\* a run was interrupted, another run of the invocation is in progress, and
\* the counters in memory count the interrupted run while meta.json does not
C26_Witness ==
    /\ saved_run # None
    /\ pc = "running"
    /\ cur # saved_run
    /\ ~FileHoldsInterruptedRun(disk)
    /\ ArmCounter(meta, InterruptedArm) > saved_run[1].i

\* ------------------------------------------ what save and load leave behind
\* C27: whatever replay memory, update counter and target parameters the
\* saved agent had, the agent load returns has an empty replay memory, an
\* update counter of 0 and target parameters equal to its primary ones; and
\* as long as it has been given fewer than batch_size transitions it has not
\* learned: no update of it ran a learning step and both its networks still
\* hold the saved primary parameters.
C27_LoadedAgentStartsAfresh ==
    /\ IsLoad =>
          /\ agent[1].memory = <<>>
          /\ agent[1].train_step = 0
          /\ agent[1].target_network = agent[1].network
    /\ loaded =>
          /\ agent[1].memory = LastN(inserted, REPLAY_MEMORY_SIZE)
          /\ IsUpdate /\ agent_call[1].learned =>
                Len(inserted) >= agent[1].batch_size
          /\ Len(inserted) < agent[1].batch_size =>
                /\ agent[1].network = archive[1].saved.network
                /\ agent[1].target_network = archive[1].saved.network

\* an agent saved with records in its memory, an update counter other than 0
\* and target parameters unlike the primary ones was loaded, and the loaded
\* agent has run a learning step
C27_Witness ==
    /\ loaded
    /\ archive[1].saved.memory # <<>>
    /\ archive[1].saved.train_step # 0
    /\ archive[1].saved.target_network # archive[1].saved.network
    /\ IsUpdate
    /\ agent_call[1].learned
    /\ Len(inserted) >= agent[1].batch_size

====
